---------------------------- MODULE Spec2Model ----------------------------
(***************************************************************************)
(* Model of two files of the kaskada repository:                           *)
(*   crates/sparrow-runtime/src/stores/object_stores.rs                    *)
(*       ObjectStoreRegistry (object_store, upload), create_object_store   *)
(*   crates/sparrow-expressions/src/evaluators/string/len.rs               *)
(*       LenEvaluator (evaluate), create                                   *)
(* Spec    is the registry used by concurrent callers.                     *)
(* LenSpec is the construction and the per-batch use of the len evaluator. *)
(***************************************************************************)
EXTENDS Integers, Sequences, FiniteSets, TLC

VARIABLES
    object_stores,  \* ObjectStoreRegistry.object_stores: key -> handle or None
    lock,           \* DashMap shard -> thread holding its write lock, or 0
    pc,             \* thread -> position in object_store / upload
    op,             \* thread -> "object_store" | "upload" | "none"
    url,            \* thread -> the ObjectStoreUrl argument of the call
    key,            \* thread -> local `key` of object_store
    object_store,   \* thread -> local `object_store` (the handle in hand)
    vacant,         \* thread -> TRUE when the call took the Vacant arm
    result,         \* thread -> value returned by the finished call
    invoked,        \* key -> number of create_object_store calls (history)
    built,          \* key -> number of successful constructions (history)
    returned,       \* key -> handles object_store has returned Ok (history)
    calls,          \* number of calls started so far
    began,          \* thread -> the steps its upload has run so far (history)
    info,           \* the StaticInfo given to the latest create, or None
    created,        \* what the latest create returned, or None
    evaluator,      \* the LenEvaluator that create produced, or None
    work_area,      \* WorkArea of the current batch: arrays by position
    out,            \* what evaluate returned for the current batch, or None
    prev,           \* input array and result of evaluate for the batch before
    registry,       \* the EvaluatorFactory entries collected, in collection order
    submitted,      \* operations whose module has submitted its factory (history)
    got,            \* the latest lookup: the name asked for and what it returned
    earlier         \* an earlier construction: its StaticInfo and its outcome

storeVars == <<object_stores, lock, pc, op, url, key, object_store, vacant,
               result, invoked, built, returned, calls, began>>

lenVars == <<info, created, evaluator, work_area, out, prev>>

planVars == <<registry, submitted, got, earlier>>

vars == <<storeVars, lenVars, planVars>>

None == [none |-> TRUE]
NoThread == 0

----------------------------------------------------------------------------
(* Bounds *)

NumThreads == 2
MaxCalls == 2
MaxArgs == 2
MaxRows == 1
NumPos == 2

Threads == 1 .. NumThreads

----------------------------------------------------------------------------
(* ObjectStoreKey and ObjectStoreUrl values *)

KeyLocal == [variant |-> "Local", bucket |-> "", region |-> "", vhs |-> FALSE]
KeyMemory == [variant |-> "Memory", bucket |-> "", region |-> "", vhs |-> FALSE]
KeyAws(b, r, v) == [variant |-> "Aws", bucket |-> b, region |-> r, vhs |-> v]
KeyGcs(b) == [variant |-> "Gcs", bucket |-> b, region |-> "", vhs |-> FALSE]

Keys == {KeyLocal, KeyMemory, KeyAws("b1", "r1", TRUE), KeyGcs("b2")}

\* A URL is known here by what its key() and path() return: ok = FALSE is
\* the Err of that method.
UrlOf(k, kok, p, pok) == [key |-> k, keyOk |-> kok, path |-> p, pathOk |-> pok]

Urls == {UrlOf(k, TRUE, "foo", TRUE) : k \in Keys}
          \cup {UrlOf(KeyLocal, FALSE, "foo", TRUE),
                UrlOf(KeyLocal, TRUE, "", FALSE)}

\* url.key()
UrlKey(u) == IF u.keyOk THEN [ok |-> TRUE, val |-> u.key]
                        ELSE [ok |-> FALSE, val |-> None]

\* url.path()
UrlPath(u) == IF u.pathOk THEN [ok |-> TRUE, val |-> u.path]
                          ELSE [ok |-> FALSE, val |-> None]

\* The DashMap shard a key hashes to: distinct keys may share a shard.
Shard(k) == IF k.variant \in {"Local", "Gcs"} THEN "s0" ELSE "s1"
Shards == {Shard(k) : k \in Keys}

----------------------------------------------------------------------------
(* Results and errors *)

Ok(v) == [ok |-> TRUE, val |-> v, err |-> "", cause |-> ""]
Err(e, c) == [ok |-> FALSE, val |-> None, err |-> e, cause |-> c]

\* Mutant of CreateObjectStore: the Gcs arm builds an S3 store.
CreateObjectStoreS3ForGcs(k, envOk, id) ==
    IF envOk
    THEN Ok([kind |-> IF k.variant = "Local" THEN "LocalFileSystem"
                      ELSE IF k.variant = "Memory" THEN "InMemory"
                      ELSE "AmazonS3",
             bucket |-> k.bucket, region |-> k.region, vhs |-> k.vhs,
             id |-> id])
    ELSE Err("CreatingObjectStore", "create")

\* create_object_store(key): envOk is whether the builder's build() succeeds
\* in the environment of this call; Local and Memory are built without one.
\* id tells the Arc allocations for one key apart.
CreateObjectStore(k, envOk, id) ==
    CASE k.variant = "Local" ->
           Ok([kind |-> "LocalFileSystem", bucket |-> "", region |-> "",
               vhs |-> FALSE, id |-> id])
      [] k.variant = "Memory" ->
           Ok([kind |-> "InMemory", bucket |-> "", region |-> "",
               vhs |-> FALSE, id |-> id])
      [] k.variant = "Aws" ->
           IF envOk
           THEN Ok([kind |-> "AmazonS3", bucket |-> k.bucket,
                    region |-> k.region, vhs |-> k.vhs, id |-> id])
           ELSE Err("CreatingObjectStore", "create")
      [] k.variant = "Gcs" ->
           IF envOk
           THEN Ok([kind |-> "GoogleCloudStorage", bucket |-> k.bucket,
                    region |-> "", vhs |-> FALSE, id |-> id])
           ELSE Err("CreatingObjectStore", "create")

\* build() reads the process environment: it can fail for the cloud stores.
EnvOutcomes(k) == IF k.variant \in {"Aws", "Gcs"} THEN BOOLEAN ELSE {TRUE}

----------------------------------------------------------------------------
(* ObjectStoreRegistry *)

StoreInit ==
    /\ object_stores = [k \in Keys |-> None]
    /\ lock = [s \in Shards |-> NoThread]
    /\ pc = [t \in Threads |-> "idle"]
    /\ op = [t \in Threads |-> "none"]
    /\ url = [t \in Threads |-> None]
    /\ key = [t \in Threads |-> None]
    /\ object_store = [t \in Threads |-> None]
    /\ vacant = [t \in Threads |-> FALSE]
    /\ result = [t \in Threads |-> None]
    /\ invoked = [k \in Keys |-> 0]
    /\ built = [k \in Keys |-> 0]
    /\ returned = [k \in Keys |-> {}]
    /\ calls = 0
    /\ began = [t \in Threads |-> <<>>]

\* A caller enters object_store(url) or upload(url, local_file_path).
Call(t) ==
    /\ UNCHANGED <<lenVars, planVars>>
    /\ pc[t] = "idle"
    /\ calls < MaxCalls
    /\ \E o \in {"object_store", "upload"}, u \in Urls :
         /\ op' = [op EXCEPT ![t] = o]
         /\ url' = [url EXCEPT ![t] = u]
         /\ pc' = [pc EXCEPT ![t] = IF o = "upload" THEN "path" ELSE "key"]
    /\ calls' = calls + 1
    /\ UNCHANGED <<object_stores, lock, key, object_store, vacant,
                   result, invoked, built, returned, began>>

\* One step of an upload and whether it succeeded.
Step(name, ok) == [step |-> name, ok |-> ok]

\* The end of the inner object_store: it is the whole call, or line 54 of
\* upload, whose `?` returns the error and otherwise goes on to open the file.
Finish(t, r) ==
    IF op[t] = "object_store"
    THEN /\ pc' = [pc EXCEPT ![t] = "done"]
         /\ result' = [result EXCEPT ![t] = r]
         /\ returned' = IF r.ok
                        THEN [returned EXCEPT ![key[t]] = @ \cup {r.val}]
                        ELSE returned
         /\ UNCHANGED began
    ELSE /\ pc' = [pc EXCEPT ![t] = IF r.ok THEN "open" ELSE "done"]
         /\ result' = [result EXCEPT ![t] = IF r.ok THEN None ELSE r]
         /\ returned' = IF r.ok
                        THEN [returned EXCEPT ![key[t]] = @ \cup {r.val}]
                        ELSE returned
         /\ began' = [began EXCEPT ![t] = Append(@, Step("resolve", r.ok))]

\* let key = url.key()?;
OsKey(t) ==
    /\ UNCHANGED <<lenVars, planVars>>
    /\ pc[t] = "key"
    /\ LET r == UrlKey(url[t]) IN
         IF r.ok
         THEN /\ key' = [key EXCEPT ![t] = r.val]
              /\ pc' = [pc EXCEPT ![t] = "entry"]
              /\ UNCHANGED <<result, returned, began>>
         ELSE /\ key' = key
              /\ Finish(t, Err("InvalidUrl", "key"))
    /\ UNCHANGED <<object_stores, lock, op, url, object_store, vacant,
                   invoked, built, calls>>

\* Mutant of ShardFree: entry() takes no lock (check-then-insert race).
ShardFreeUnlocked(k) == TRUE

\* The shard of k is not write-locked.
ShardFree(k) == lock[Shard(k)] = NoThread

\* Mutant of Occupied: the lookup misses an entry that is there.
OccupiedMissed(k) == FALSE

\* Entry::Occupied: the map holds an entry for k.
Occupied(k) == object_stores[k] # None

\* self.object_stores.entry(key): takes the write lock of the key's shard.
\* Occupied: the handle is cloned and the entry dropped (lock released).
\* Vacant: the lock is kept by the VacantEntry.
OsEntry(t) ==
    /\ UNCHANGED <<lenVars, planVars>>
    /\ pc[t] = "entry"
    /\ ShardFree(key[t])
    /\ IF Occupied(key[t])
       THEN /\ Finish(t, Ok(object_stores[key[t]]))
            /\ object_store' = [object_store EXCEPT ![t] = object_stores[key[t]]]
            /\ UNCHANGED <<lock, vacant>>
       ELSE /\ lock' = [lock EXCEPT ![Shard(key[t])] = t]
            /\ vacant' = [vacant EXCEPT ![t] = TRUE]
            /\ pc' = [pc EXCEPT ![t] = "create"]
            /\ UNCHANGED <<object_store, result, returned, began>>
    /\ UNCHANGED <<object_stores, op, url, key, invoked, built,
                   calls>>

\* Mutant of OsCreate: the entry is filled before the build is known to have
\* succeeded, so a failed build leaves its placeholder in the map.
OsCreateInsertsFirst(t) ==
    /\ UNCHANGED <<lenVars, planVars>>
    /\ pc[t] = "create"
    /\ \E envOk \in EnvOutcomes(key[t]) :
         LET r == CreateObjectStore(key[t], envOk, built[key[t]] + 1) IN
           /\ invoked' = [invoked EXCEPT ![key[t]] = @ + 1]
           /\ IF r.ok
              THEN /\ object_store' = [object_store EXCEPT ![t] = r.val]
                   /\ built' = [built EXCEPT ![key[t]] = @ + 1]
                   /\ pc' = [pc EXCEPT ![t] = "insert"]
                   /\ UNCHANGED <<object_stores, lock, result, returned, began>>
              ELSE /\ lock' = [lock EXCEPT ![Shard(key[t])] = NoThread]
                   /\ object_stores' = [object_stores EXCEPT ![key[t]] =
                         [kind |-> "", bucket |-> "", region |-> "",
                          vhs |-> FALSE, id |-> 0]]
                   /\ Finish(t, r)
                   /\ UNCHANGED <<object_store, built>>
    /\ UNCHANGED <<op, url, key, vacant, calls>>

\* let object_store = create_object_store(vacant.key())?;
\* The `?` drops the VacantEntry: the lock is released, nothing is inserted.
OsCreate(t) ==
    /\ UNCHANGED <<lenVars, planVars>>
    /\ pc[t] = "create"
    /\ \E envOk \in EnvOutcomes(key[t]) :
         LET r == CreateObjectStore(key[t], envOk, built[key[t]] + 1) IN
           /\ invoked' = [invoked EXCEPT ![key[t]] = @ + 1]
           /\ IF r.ok
              THEN /\ object_store' = [object_store EXCEPT ![t] = r.val]
                   /\ built' = [built EXCEPT ![key[t]] = @ + 1]
                   /\ pc' = [pc EXCEPT ![t] = "insert"]
                   /\ UNCHANGED <<lock, result, returned, began>>
              ELSE /\ lock' = [lock EXCEPT ![Shard(key[t])] = NoThread]
                   /\ Finish(t, r)
                   /\ UNCHANGED <<object_store, built>>
    /\ UNCHANGED <<object_stores, op, url, key, vacant, calls>>

\* Mutant of Inserted: the handle is returned without being stored.
InsertedNowhere(t) == object_stores

\* Mutant of Inserted: the insertion rebuilds the map around the new entry and
\* loses the entries of the other keys.
InsertedAlone(t) == [k \in Keys |-> IF k = key[t] THEN object_store[t] ELSE None]

\* vacant.insert(object_store): the map after the insertion.
Inserted(t) == [object_stores EXCEPT ![key[t]] = object_store[t]]

\* Ok(vacant.insert(object_store).value().clone())
OsInsert(t) ==
    /\ UNCHANGED <<lenVars, planVars>>
    /\ pc[t] = "insert"
    /\ object_stores' = Inserted(t)
    /\ lock' = [lock EXCEPT ![Shard(key[t])] = NoThread]
    /\ Finish(t, Ok(object_store[t]))
    /\ UNCHANGED <<op, url, key, object_store, vacant, invoked, built,
                   calls>>

\* let target_path = target_url.path()?;
UpPath(t) ==
    /\ UNCHANGED <<lenVars, planVars>>
    /\ pc[t] = "path"
    /\ LET r == UrlPath(url[t]) IN
         IF r.ok
         THEN /\ pc' = [pc EXCEPT ![t] = "key"]
              /\ UNCHANGED result
         ELSE /\ pc' = [pc EXCEPT ![t] = "done"]
              /\ result' = [result EXCEPT ![t] = Err("UrlInvalidPath", "path")]
    /\ began' = [began EXCEPT ![t] = Append(@, Step("path", UrlPath(url[t]).ok))]
    /\ UNCHANGED <<object_stores, lock, op, url, key, object_store, vacant,
                   invoked, built, returned, calls>>

\* Mutant of UpStep: the error of a step is dropped instead of returned by
\* `?`, and the upload goes on with the next step.
UpStepIgnoringError(t, here, kind, next) ==
    /\ \E stepOk \in BOOLEAN :
         /\ began' = [began EXCEPT ![t] = Append(@, Step(here, stepOk))]
         /\ pc' = [pc EXCEPT ![t] = next]
         /\ result' = [result EXCEPT ![t] =
                         IF next # "done" THEN @
                         ELSE IF stepOk THEN Ok(None) ELSE Err(kind, here)]
    /\ UNCHANGED <<object_stores, lock, op, url, key, object_store, vacant,
                   invoked, built, returned, calls>>

\* One fallible step of upload after the backend is resolved: on success
\* go to `next`, on failure return Err(kind) (change_context(kind)).
UpStep(t, here, kind, next) ==
    /\ \E stepOk \in BOOLEAN :
         /\ began' = [began EXCEPT ![t] = Append(@, Step(here, stepOk))]
         /\ IF stepOk
            THEN /\ pc' = [pc EXCEPT ![t] = next]
                 /\ result' = [result EXCEPT ![t] =
                                 IF next = "done" THEN Ok(None) ELSE @]
            ELSE /\ pc' = [pc EXCEPT ![t] = "done"]
                 /\ result' = [result EXCEPT ![t] = Err(kind, here)]
    /\ UNCHANGED <<object_stores, lock, op, url, key, object_store, vacant,
                   invoked, built, returned, calls>>

\* fs::File::open(local_file_path) ... change_context(Error::Internal)?
UpOpen(t) ==
    /\ UNCHANGED <<lenVars, planVars>>
    /\ pc[t] = "open"
    /\ UpStep(t, "open", "Internal", "put")

\* object_store.put_multipart(&target_path)
\*     ... change_context(Error::ReadWriteObjectStore)?
UpPut(t) ==
    /\ UNCHANGED <<lenVars, planVars>>
    /\ pc[t] = "put"
    /\ UpStep(t, "put", "ReadWriteObjectStore", "copy")

\* Mutant of UpCopy: the writer is shut down whether or not the copy succeeded.
UpCopyThenShutdown(t) ==
    /\ UNCHANGED <<lenVars, planVars>>
    /\ pc[t] = "copy"
    /\ \E stepOk \in BOOLEAN :
         began' = [began EXCEPT ![t] = Append(@, Step("copy", stepOk))]
    /\ pc' = [pc EXCEPT ![t] = "shutdown"]
    /\ UNCHANGED <<object_stores, lock, op, url, key, object_store, vacant,
                   result, invoked, built, returned, calls>>

\* tokio::io::copy(&mut local_file, &mut writer)
\*     ... change_context(Error::Internal)?
UpCopy(t) ==
    /\ UNCHANGED <<lenVars, planVars>>
    /\ pc[t] = "copy"
    /\ UpStep(t, "copy", "Internal", "shutdown")

\* writer.shutdown() ... change_context(Error::Internal)?;  Ok(())
UpShutdown(t) ==
    /\ UNCHANGED <<lenVars, planVars>>
    /\ pc[t] = "shutdown"
    /\ UpStep(t, "shutdown", "Internal", "done")

\* The call has returned; the caller goes on.
Return(t) ==
    /\ UNCHANGED <<lenVars, planVars>>
    /\ pc[t] = "done"
    /\ pc' = [pc EXCEPT ![t] = "idle"]
    /\ op' = [op EXCEPT ![t] = "none"]
    /\ url' = [url EXCEPT ![t] = None]
    /\ key' = [key EXCEPT ![t] = None]
    /\ object_store' = [object_store EXCEPT ![t] = None]
    /\ vacant' = [vacant EXCEPT ![t] = FALSE]
    /\ result' = [result EXCEPT ![t] = None]
    /\ began' = [began EXCEPT ![t] = <<>>]
    /\ UNCHANGED <<object_stores, lock, invoked, built, returned,
                   calls>>

StoreNext ==
    \E t \in Threads :
       \/ Call(t)
       \/ OsKey(t)
       \/ OsEntry(t)
       \/ OsCreate(t)
       \/ OsInsert(t)
       \/ UpPath(t)
       \/ UpOpen(t)
       \/ UpPut(t)
       \/ UpCopy(t)
       \/ UpShutdown(t)
       \/ Return(t)

----------------------------------------------------------------------------
(* Arrow arrays *)

\* A string array element: null, or the characters of the string.
NullElem == [null |-> TRUE, chars |-> <<>>]
Some(cs) == [null |-> FALSE, chars |-> cs]

\* UTF-8 encoding of a character: "eacute" takes two bytes.
Utf8(c) ==
    CASE c = "a" -> <<97>>
      [] c = "b" -> <<98>>
      [] c = "x" -> <<120>>
      [] c = "y" -> <<121>>
      [] c = "z" -> <<122>>
      [] c = "eacute" -> <<195, 169>>

RECURSIVE StrBytes(_)
StrBytes(cs) == IF cs = <<>> THEN <<>> ELSE Utf8(Head(cs)) \o StrBytes(Tail(cs))

RECURSIVE ValuesOf(_)
ValuesOf(list) ==
    IF list = <<>> THEN <<>>
    ELSE (IF Head(list).null THEN <<>> ELSE StrBytes(Head(list).chars))
            \o ValuesOf(Tail(list))

\* StringArray built from optional strings: offsets, value bytes, validity.
\* A null element appends no bytes and repeats the offset.
StringArray(list) ==
    [data_type |-> "Utf8",
     offsets |-> [i \in 1 .. Len(list) + 1 |-> Len(ValuesOf(SubSeq(list, 1, i - 1)))],
     values |-> ValuesOf(list),
     validity |-> [i \in 1 .. Len(list) |-> ~list[i].null]]

Int32Array(vals, valid) ==
    [data_type |-> "Int32", offsets |-> <<>>, values |-> vals, validity |-> valid]

Elements == {NullElem, Some(<<>>), Some(<<"eacute">>)}

\* ["ab", null, "", "xyz"]
SampleArray ==
    StringArray(<<Some(<<"a", "b">>), NullElem, Some(<<>>), Some(<<"x", "y", "z">>)>>)

StringArrays ==
    {StringArray(l) : l \in UNION {[1 .. n -> Elements] : n \in 0 .. MaxRows}}
       \cup {SampleArray}

\* What a WorkArea position may hold: the context does not check types.
Arrays == StringArrays \cup {Int32Array(<<7>>, <<TRUE>>)}

Rows(a) == Len(a.validity)

----------------------------------------------------------------------------
(* StaticInfo, typed handles, WorkArea *)

LOk(v) == [ok |-> TRUE, val |-> v, err |-> "", source |-> "", name |-> ""]
LErr(e, src, n) == [ok |-> FALSE, val |-> None, err |-> e, source |-> src, name |-> n]

Types == {"String", "Int32"}
Positions == 0 .. NumPos - 1

\* StaticArg: the position of the argument's node and its declared type.
StaticArgs == [index : Positions, data_type : Types]
ArgLists == UNION {[1 .. n -> StaticArgs] : n \in 0 .. MaxArgs}
StaticInfos == [name : {"len"}, args : ArgLists]

\* info.unpack_argument(): the single argument, or an arity error.
UnpackArgument(i) ==
    IF Len(i.args) = 1 THEN LOk(i.args[1])
    ELSE LErr("InvalidArgumentCount", "", i.name)

\* input.string(): the handle typed as string, or a type-mismatch error.
AsString(arg) ==
    IF arg.data_type = "String" THEN LOk([data_type |-> "String", index |-> arg.index])
    ELSE LErr("TypeMismatch", arg.data_type, "String")

\* info.expression(handle): the array stored at the handle's position; a
\* position not stored in this pass is an ordering violation.
Expression(wa, handle) ==
    IF handle.index < Len(wa) THEN LOk(wa[handle.index + 1])
    ELSE LErr("OrderingViolation", "", "")

----------------------------------------------------------------------------
(* len.rs *)

\* Mutant of Length: every output slot is valid.
LengthAllValid(a) ==
    IF a.data_type = "Utf8"
    THEN LOk(Int32Array([i \in 1 .. Len(a.offsets) - 1 |->
                            a.offsets[i + 1] - a.offsets[i]],
                        [i \in 1 .. Len(a.offsets) - 1 |-> TRUE]))
    ELSE LErr("ComputeError", "", "")

\* arrow_string::length::length(input): for a string array the byte length
\* of each value from the offsets, with the input's null buffer; an array of
\* a type without a length is an ArrowError.
Length(a) ==
    IF a.data_type = "Utf8"
    THEN LOk(Int32Array([i \in 1 .. Len(a.offsets) - 1 |->
                            a.offsets[i + 1] - a.offsets[i]],
                        a.validity))
    ELSE LErr("ComputeError", "", "")

\* What evaluate makes of the kernel's result:
\* .into_report().change_context(Error::ExprEvaluation)?; Ok(Arc::new(result))
Evaluated(input) ==
    LET r == Length(input) IN
      IF r.ok THEN LOk(r.val) ELSE LErr("ExprEvaluation", r.err, "")

\* Mutant of LenEvaluate: reads the first position, whatever the handle.
LenEvaluateFirstPosition(ev, wa) ==
    IF wa = <<>> THEN LErr("OrderingViolation", "", "") ELSE Evaluated(wa[1])

\* Mutant of LenEvaluate: once a batch has failed, the evaluator keeps
\* returning that failure.
LenEvaluatePoisoned(ev, wa) ==
    IF prev # None /\ ~prev.out.ok THEN prev.out
    ELSE LET input == Expression(wa, ev.input) IN
           IF input.ok THEN Evaluated(input.val) ELSE input

\* Mutant of LenEvaluate: a position not stored in this pass is served from
\* the input of the pass before.
LenEvaluateStale(ev, wa) ==
    LET input == Expression(wa, ev.input) IN
      IF input.ok THEN Evaluated(input.val)
      ELSE IF prev # None /\ prev.input # None THEN Evaluated(prev.input)
      ELSE input

\* LenEvaluator::evaluate(&self, info)
LenEvaluate(ev, wa) ==
    LET input == Expression(wa, ev.input) IN
      IF input.ok THEN Evaluated(input.val) ELSE input

\* Mutant of LenCreate: takes the first argument and ignores the others.
LenCreateFirstArgument(i) ==
    IF i.args = <<>> THEN UnpackArgument(i)
    ELSE LET h == AsString(i.args[1]) IN
           IF h.ok THEN LOk([input |-> h.val]) ELSE h

\* Mutant of LenCreate: binds the argument without the string() check.
LenCreateUnchecked(i) ==
    LET a == UnpackArgument(i) IN
      IF a.ok THEN LOk([input |-> [data_type |-> "String", index |-> a.val.index]])
      ELSE a

\* Mutant of LenCreate: the constructor keeps state across calls and refuses
\* to build a second evaluator once one has been built.
LenCreateOnce(i) ==
    LET a == UnpackArgument(i) IN
      IF ~a.ok THEN a
      ELSE IF created # None /\ created.ok
      THEN LErr("InvalidArgumentCount", "", i.name)
      ELSE LET h == AsString(a.val) IN
             IF h.ok THEN LOk([input |-> h.val]) ELSE h

\* create(info): let input = info.unpack_argument()?;
\*               Ok(Box::new(LenEvaluator { input: input.string()? }))
LenCreate(i) ==
    LET a == UnpackArgument(i) IN
      IF ~a.ok THEN a
      ELSE LET h == AsString(a.val) IN
             IF h.ok THEN LOk([input |-> h.val]) ELSE h

LenInit ==
    /\ info = None
    /\ created = None
    /\ evaluator = None
    /\ work_area = <<>>
    /\ out = None
    /\ prev = None

\* Plan build: the constructor registered for "len" is given a StaticInfo.
Create ==
    /\ UNCHANGED <<storeVars, planVars>>
    /\ evaluator = None
    /\ \E i \in StaticInfos :
         /\ info' = i
         /\ created' = LenCreate(i)
         /\ evaluator' = IF created'.ok THEN created'.val ELSE None
    /\ UNCHANGED <<work_area, out, prev>>

\* An earlier evaluator of the pass stores its output at the next position.
Store ==
    /\ UNCHANGED <<storeVars, planVars>>
    /\ evaluator # None
    /\ out = None
    /\ Len(work_area) < NumPos
    /\ \E a \in Arrays : work_area' = Append(work_area, a)
    /\ UNCHANGED <<info, created, evaluator, out, prev>>

\* Mutant of Evaluate: the evaluator stores its output in the WorkArea.
EvaluateStoring ==
    /\ UNCHANGED <<storeVars, planVars>>
    /\ evaluator # None
    /\ out = None
    /\ out' = LenEvaluate(evaluator, work_area)
    /\ work_area' = IF out'.ok /\ Len(work_area) < NumPos
                    THEN Append(work_area, out'.val) ELSE work_area
    /\ UNCHANGED <<info, created, evaluator, prev>>

\* The len evaluator runs on the batch's WorkArea.
Evaluate ==
    /\ UNCHANGED <<storeVars, planVars>>
    /\ evaluator # None
    /\ out = None
    /\ out' = LenEvaluate(evaluator, work_area)
    /\ UNCHANGED <<info, created, evaluator, work_area, prev>>

\* The pass is over: the next batch gets a fresh, empty WorkArea.
NewBatch ==
    /\ UNCHANGED <<storeVars, planVars>>
    /\ out # None
    /\ prev' = [input |-> Expression(work_area, evaluator.input).val,
                out |-> out, evaluator |-> evaluator]
    /\ work_area' = <<>>
    /\ out' = None
    /\ UNCHANGED <<info, created, evaluator>>

----------------------------------------------------------------------------
(* Specifications *)

PlanInit ==
    /\ registry = <<>>
    /\ submitted = {}
    /\ got = None
    /\ earlier = None

Init == StoreInit /\ LenInit /\ PlanInit

Next == StoreNext

Spec == Init /\ [][Next]_vars

LenNext ==
    \/ Create
    \/ Store
    \/ Evaluate
    \/ NewBatch

LenSpec == Init /\ [][LenNext]_vars

----------------------------------------------------------------------------
(* Evaluator factories and plan construction *)

\* The constructor an operation's module exports.
ConstructorOf(o) == [module |-> o, fn |-> "create"]

\* Mutant of LenFactory: the factory is submitted under another operation's
\* name.
LenFactoryAsUpper == [name |-> "upper", create |-> ConstructorOf("len")]

\* inventory::submit!(crate::evaluators::EvaluatorFactory {
\*     name: "len", create: &create });
LenFactory == [name |-> "len", create |-> ConstructorOf("len")]

\* The operations whose modules submit a factory, and the names a plan can
\* ask for: "reverse" is submitted by no module.
Operations == {"len", "upper", "lower", "substring"}

Names == Operations \cup {"reverse"}

\* The factory the module of operation o submits.
FactoryOf(o) ==
    IF o = "len" THEN LenFactory
    ELSE [name |-> o, create |-> ConstructorOf(o)]

\* get(name): the constructor of the factory collected under the name, or an
\* unknown-operation error naming it.
RegistryGet(reg, name) ==
    LET hits == {i \in 1 .. Len(reg) : reg[i].name = name} IN
      IF hits = {} THEN LErr("UnknownOperation", "", name)
      ELSE LOk(reg[CHOOSE i \in hits : \A j \in hits : i <= j].create)

\* The factory of one more module is collected; the modules come in any order.
Register ==
    /\ UNCHANGED <<storeVars, lenVars>>
    /\ \E o \in Operations \ submitted :
         /\ registry' = Append(registry, FactoryOf(o))
         /\ submitted' = submitted \cup {o}
    /\ UNCHANGED <<got, earlier>>

\* A plan asks the registry for the constructor of an operation name.
Get ==
    /\ UNCHANGED <<storeVars, lenVars>>
    /\ \E name \in Names :
         got' = [name |-> name, res |-> RegistryGet(registry, name)]
    /\ UNCHANGED <<registry, submitted, earlier>>

RegNext ==
    \/ Register
    \/ Get

RegSpec == Init /\ [][RegNext]_vars

\* The StaticInfos the plan builder constructs from next. Once a construction
\* is remembered, constructions from other StaticInfos alternate with
\* constructions from the remembered one: every pair of a remembered and a
\* latest construction is still reached, and each is followed by the
\* construction it is compared with.
NextInfos ==
    IF earlier = None \/ info = earlier.info THEN StaticInfos
    ELSE {earlier.info}

\* The plan builder calls create for one node after another; one of the
\* constructions, the first or a later one, is remembered for comparison with
\* the constructions that follow it.
Construct ==
    /\ UNCHANGED <<storeVars, registry, submitted, got>>
    /\ \E i \in NextInfos :
         /\ info' = i
         /\ created' = LenCreate(i)
         /\ evaluator' = IF created'.ok THEN created'.val ELSE None
         /\ \E remember \in IF earlier = None THEN BOOLEAN ELSE {FALSE} :
              earlier' = IF remember THEN [info |-> i, created |-> created']
                         ELSE earlier
    /\ UNCHANGED <<work_area, out, prev>>

BuildNext == Construct

BuildSpec == Init /\ [][BuildNext]_vars

----------------------------------------------------------------------------
(* Claims about ObjectStoreRegistry *)

\* Threads whose (inner) object_store call has returned Ok: the finished
\* object_store callers and the uploads past line 54.
Resolved(t) ==
    \/ pc[t] = "done" /\ op[t] = "object_store" /\ result[t].ok
    \/ pc[t] \in {"open", "put", "copy", "shutdown"}
    \/ pc[t] = "done" /\ op[t] = "upload"
         /\ result[t].cause \in {"", "open", "put", "copy", "shutdown"}

Cached == {k \in Keys : object_stores[k] # None}

\* C1 as stated: concurrent object_store calls for one key construct its
\* backend at most once, create_object_store is never invoked twice for a key
\* that ends up cached, and every caller that returns Ok holds the handle
\* stored in the map.
C1_InvokedOncePerCachedKey ==
    /\ \A k \in Keys : built[k] <= 1
    /\ \A k \in Cached : invoked[k] <= 1
    /\ \A t \in Threads : Resolved(t) => object_store[t] = object_stores[key[t]]

\* C1 as amended: create_object_store succeeds at most once per key and is
\* never invoked for a key that is already cached (a caller in the Vacant arm
\* holds the shard lock over a still empty entry); a cached key was built
\* exactly once, and every caller that returns Ok holds the handle stored in
\* the map.
C1_ConstructedAtMostOnce ==
    /\ \A k \in Keys : built[k] <= 1
    /\ \A k \in Cached : built[k] = 1 /\ object_stores[k].kind # ""
    /\ \A t \in Threads :
         pc[t] \in {"create", "insert"} =>
            /\ object_stores[key[t]] = None
            /\ lock[Shard(key[t])] = t
    /\ \A t \in Threads : Resolved(t) => object_store[t] = object_stores[key[t]]
    /\ \A t \in Threads :
         (pc[t] = "done" /\ op[t] = "object_store" /\ result[t].ok) =>
            result[t].val = object_stores[key[t]]

\* Two callers resolved the same key: one built the backend, the other found it.
C1_Witness ==
    \E t1, t2 \in Threads :
       /\ t1 # t2
       /\ pc[t1] = "done" /\ pc[t2] = "done"
       /\ op[t1] = "object_store" /\ op[t2] = "object_store"
       /\ result[t1].ok /\ result[t2].ok
       /\ key[t1] = key[t2]
       /\ vacant[t1] /\ ~vacant[t2]
       /\ result[t1].val = result[t2].val

\* C2: the error kind of an upload that fails because the local file cannot
\* be opened differs from the error kind of an upload that fails in the remote
\* write (put_multipart, copy or shutdown).
C2_OpenAndRemoteKindsDiffer ==
    \A t1, t2 \in Threads :
       ( /\ pc[t1] = "done" /\ op[t1] = "upload" /\ ~result[t1].ok
         /\ pc[t2] = "done" /\ op[t2] = "upload" /\ ~result[t2].ok
         /\ result[t1].cause = "open"
         /\ result[t2].cause \in {"put", "copy", "shutdown"} )
       => result[t1].err # result[t2].err

\* C3: once object_store has returned Ok for a key, the entry of that key is
\* never removed or replaced, no create_object_store runs for it, and every
\* later Ok return for the key is that same handle.
C3_CachedForever ==
    [][ \A k \in Keys :
          returned[k] # {} =>
             /\ returned[k] = {object_stores[k]}
             /\ object_stores'[k] = object_stores[k]
             /\ invoked'[k] = invoked[k]
             /\ returned'[k] = returned[k] ]_vars

\* A second location with the same key was resolved from the cache, to the
\* handle the first call returned.
C3_Witness ==
    \E t1, t2 \in Threads :
       /\ pc[t1] = "done" /\ op[t1] = "object_store" /\ result[t1].ok
       /\ pc[t2] = "done" /\ op[t2] = "object_store" /\ result[t2].ok
       /\ url[t1] # url[t2]
       /\ key[t1] = key[t2]
       /\ returned[key[t1]] = {result[t2].val}
       /\ invoked[key[t1]] = 1

\* C4: when object_store finds no entry for url.key() and returns Ok, the
\* step that returns has added an entry for exactly that key, holding the
\* handle that is returned.
C4_CreatesIfNotExists ==
    [][ \A t \in Threads :
          (pc[t] = "insert" /\ pc'[t] # "insert") =>
             /\ key[t] \notin Cached
             /\ Cached' = Cached \cup {key[t]}
             /\ object_stores'[key[t]] = object_store'[t]
             /\ op[t] = "object_store" =>
                   /\ result'[t].ok
                   /\ result'[t].val = object_stores'[key[t]] ]_vars

\* object_store returned Ok through the Vacant arm: the key is now cached.
C4_Witness ==
    \E t \in Threads :
       /\ pc[t] = "done" /\ op[t] = "object_store" /\ vacant[t]
       /\ result[t].ok
       /\ Cached = {key[t]}
       /\ object_stores[key[t]] = result[t].val

\* The backend kind the tests expect of each key variant.
BackendKind(variant) ==
    CASE variant = "Local" -> "LocalFileSystem"
      [] variant = "Memory" -> "InMemory"
      [] variant = "Aws" -> "AmazonS3"
      [] variant = "Gcs" -> "GoogleCloudStorage"

IsBackendOf(h, k) == h.kind = BackendKind(k.variant) /\ h.bucket = k.bucket

\* C5: every backend create_object_store returns is of the kind of the key's
\* variant and, for Aws and Gcs, of the key's bucket.
C5_BackendMatchesKey ==
    /\ \A k \in Cached : IsBackendOf(object_stores[k], k)
    /\ \A t \in Threads :
         (pc[t] = "insert" \/ Resolved(t)) => IsBackendOf(object_store[t], key[t])

\* An S3 store and a Google Cloud Storage store were built, each for its bucket.
C5_Witness ==
    \E k1, k2 \in Cached :
       /\ k1.variant = "Aws" /\ object_stores[k1].kind = "AmazonS3"
       /\ object_stores[k1].bucket = k1.bucket
       /\ k2.variant = "Gcs" /\ object_stores[k2].kind = "GoogleCloudStorage"
       /\ object_stores[k2].bucket = k2.bucket
       /\ k1.bucket # k2.bucket

----------------------------------------------------------------------------
(* Claims about the len evaluator (checked under LenSpec) *)

\* The evaluator ran on this batch and its input position had been stored.
EvaluatedStored ==
    /\ evaluator # None
    /\ out # None
    /\ Expression(work_area, evaluator.input).ok

InputArray == Expression(work_area, evaluator.input).val

\* The bytes of element i of a string array.
ElementBytes(a, i) == SubSeq(a.values, a.offsets[i] + 1, a.offsets[i + 1])

\* C6: for every input string array, evaluate returns an array of the same
\* length whose slot i is null exactly when input slot i is null and
\* otherwise holds the length of input element i.
C6_NullPreservingLengths ==
    (EvaluatedStored /\ InputArray.data_type = "Utf8") =>
       /\ out.ok
       /\ out.val.data_type = "Int32"
       /\ Len(out.val.values) = Rows(InputArray)
       /\ Len(out.val.validity) = Rows(InputArray)
       /\ \A i \in 1 .. Rows(InputArray) :
            /\ out.val.validity[i] = InputArray.validity[i]
            /\ InputArray.validity[i] =>
                  out.val.values[i] = Len(ElementBytes(InputArray, i))

\* ["ab", null, "", "xyz"] gave [2, null, 0, 3].
C6_Witness ==
    /\ EvaluatedStored
    /\ InputArray = SampleArray
    /\ out.ok
    /\ out.val.validity = <<TRUE, FALSE, TRUE, TRUE>>
    /\ out.val.values[1] = 2 /\ out.val.values[3] = 0 /\ out.val.values[4] = 3

\* C7: create succeeds only for a StaticInfo with exactly one argument: with
\* none it fails with an arity error and produces no evaluator, with more
\* than one it fails too.
C7_ExactlyOneArgument ==
    created # None =>
       /\ created.ok => Len(info.args) = 1
       /\ Len(info.args) = 0 =>
             /\ ~created.ok
             /\ created.err = "InvalidArgumentCount"
             /\ evaluator = None
       /\ Len(info.args) > 1 => (~created.ok /\ evaluator = None)

\* create was given two arguments and failed.
C7_Witness ==
    /\ created # None
    /\ Len(info.args) = 2
    /\ info.args[1].data_type = "String"
    /\ ~created.ok
    /\ evaluator = None

\* C8: an argument whose declared type is not string makes create fail with
\* a type-mismatch error and no evaluator; so a LenEvaluator that exists
\* holds a string-typed handle of a string-typed argument, and evaluate never
\* reports a construction error.
C8_StringTypedAtConstruction ==
    /\ (created # None /\ Len(info.args) = 1
          /\ info.args[1].data_type # "String") =>
          /\ ~created.ok
          /\ created.err = "TypeMismatch"
          /\ evaluator = None
    /\ evaluator # None =>
          /\ evaluator.input.data_type = "String"
          /\ Len(info.args) = 1
          /\ info.args[1].data_type = "String"
          /\ evaluator.input.index = info.args[1].index
    /\ (out # None /\ ~out.ok) =>
          out.err \notin {"TypeMismatch", "InvalidArgumentCount"}

\* create was given one Int32 argument and failed with a type mismatch.
C8_Witness ==
    /\ created # None
    /\ Len(info.args) = 1
    /\ info.args[1].data_type = "Int32"
    /\ ~created.ok
    /\ created.err = "TypeMismatch"
    /\ evaluator = None

C10_ErrorNamesOperation ==
    (out # None /\ ~out.ok /\ out.err = "ExprEvaluation") =>
       /\ out.source = "ComputeError"
       /\ out.name = "len"


\* The lengths of a string array, slot by slot.
LengthsOf(a) ==
    Int32Array([i \in 1 .. Rows(a) |-> Len(ElementBytes(a, i))], a.validity)

\* C11: after evaluate has failed for one batch, the same evaluator run on
\* the fresh WorkArea of the next batch with a valid input returns what it
\* returns for that input without the failure: the lengths of the input.
C11_FailureConfinedToBatch ==
    (prev # None /\ ~prev.out.ok /\ EvaluatedStored
       /\ InputArray.data_type = "Utf8") =>
       /\ evaluator = prev.evaluator
       /\ evaluator = created.val
       /\ out = LOk(LengthsOf(InputArray))

\* A batch whose evaluation failed was followed by one that succeeded.
C11_Witness ==
    /\ prev # None
    /\ ~prev.out.ok
    /\ prev.out.err = "ExprEvaluation"
    /\ EvaluatedStored
    /\ Rows(InputArray) > 0
    /\ out.ok

\* C12: evaluate on a WorkArea in which the position of its input handle has
\* not been stored in this pass returns no array: it ends in an ordering
\* violation, whatever an earlier pass or another position holds.
C12_UnstoredPositionDetected ==
    (evaluator # None /\ out # None
       /\ evaluator.input.index >= Len(work_area)) =>
       /\ ~out.ok
       /\ out.err = "OrderingViolation"
       /\ out.val = None

\* The evaluator ran before its input was stored, after a pass that had data
\* and beside another stored position.
C12_Witness ==
    /\ prev # None
    /\ prev.out.ok
    /\ evaluator # None
    /\ out # None
    /\ Len(work_area) = 1
    /\ evaluator.input.index = 1
    /\ ~out.ok

\* C14: the step in which evaluate returns changes nothing but the returned
\* result: the WorkArea holds the same arrays at the same positions, and the
\* evaluator is the same.
C14_EvaluateLeavesContext ==
    [][ (out = None /\ out' # None) =>
           /\ work_area' = work_area
           /\ evaluator' = evaluator
           /\ UNCHANGED <<info, created, prev, storeVars>> ]_vars

\* evaluate has returned an array and the WorkArea is full as before.
C14_Witness ==
    /\ out # None
    /\ out.ok
    /\ Len(work_area) = NumPos
    /\ evaluator.input.index = 0
    /\ Rows(out.val) = Rows(work_area[1])

----------------------------------------------------------------------------
(* Claims about failures and the extent of a call (checked under Spec) *)

\* The inner object_store of thread t ends in an error in this step: url.key()
\* or create_object_store failed.
ObjectStoreFails(t) ==
    /\ pc[t] \in {"key", "create"}
    /\ pc'[t] = "done"
    /\ ~result'[t].ok
    /\ result'[t].cause \in {"key", "create"}

\* C16: a call of object_store that returns an error leaves the map as it
\* was: no entry is inserted for the key, the entry stays vacant and unlocked,
\* and a later call that finds the entry vacant runs create_object_store
\* again.
C16_ErrorLeavesMapUnchanged ==
    [][ \A t \in Threads :
          /\ ObjectStoreFails(t) =>
                /\ object_stores' = object_stores
                /\ pc[t] = "create" =>
                      /\ object_stores'[key[t]] = None
                      /\ lock'[Shard(key[t])] = NoThread
                      /\ invoked'[key[t]] = invoked[key[t]] + 1
                      /\ built'[key[t]] = built[key[t]]
          /\ (pc[t] = "entry" /\ pc'[t] # "entry"
                /\ object_stores[key[t]] = None) => pc'[t] = "create" ]_vars

\* create_object_store failed for a key and a later call for the same key ran
\* it again, this time with success: the key is cached after two invocations.
C16_Witness ==
    \E t \in Threads :
       /\ pc[t] = "done" /\ op[t] = "object_store" /\ result[t].ok /\ vacant[t]
       /\ invoked[key[t]] = 2
       /\ built[key[t]] = 1
       /\ object_stores[key[t]] = result[t].val

\* C17: a call of object_store changes at most the map entry of url.key():
\* an entry changes only in the insertion of a caller whose URL has that key,
\* and every other entry is left as it was.
C17_OnlyOwnEntryChanges ==
    [][ \A k \in Keys :
          object_stores'[k] # object_stores[k] =>
             \E t \in Threads :
                /\ pc[t] = "insert" /\ pc'[t] # "insert"
                /\ UrlKey(url[t]).ok /\ UrlKey(url[t]).val = k
                /\ \A other \in Keys \ {k} :
                      object_stores'[other] = object_stores[other] ]_vars

\* A caller inserted the entry of its key while another key was cached, and
\* that other entry is still there.
C17_Witness ==
    \E t \in Threads : \E other \in Cached :
       /\ pc[t] = "done" /\ vacant[t] /\ Resolved(t)
       /\ other # key[t]
       /\ key[t] \in Cached
       /\ built[other] = 1

----------------------------------------------------------------------------
(* Claims about the steps of upload (checked under Spec) *)

\* The steps of upload in the order of its body.
UploadOrder == <<"path", "resolve", "open", "put", "copy", "shutdown">>

AllOk(steps) == \A i \in 1 .. Len(steps) : steps[i].ok

\* The steps an upload has behind it when it is about to run the step at pc.
StepsBefore(at) ==
    CASE at = "path" -> 0
      [] at \in {"key", "entry", "create", "insert"} -> 1
      [] at = "open" -> 2
      [] at = "put" -> 3
      [] at = "copy" -> 4
      [] at = "shutdown" -> 5

\* C18: the steps of upload run in the order path, backend, open,
\* put_multipart, copy, shutdown, and a step runs only if every earlier step
\* succeeded: the steps run so far are a prefix of that order in which only
\* the last can have failed, and an upload about to run a step has exactly the
\* earlier steps behind it, all of them successful.
C18_StepsInFixedOrder ==
    \A t \in Threads :
       /\ Len(began[t]) <= Len(UploadOrder)
       /\ \A i \in 1 .. Len(began[t]) :
             /\ began[t][i].step = UploadOrder[i]
             /\ i < Len(began[t]) => began[t][i].ok
       /\ (op[t] = "upload" /\ pc[t] # "done") =>
             /\ Len(began[t]) = StepsBefore(pc[t])
             /\ AllOk(began[t])
       /\ op[t] # "upload" => began[t] = <<>>

\* An upload whose local file could not be opened has returned: the path and
\* the backend were resolved, and nothing was begun on the remote store.
C18_Witness ==
    \E t \in Threads :
       /\ pc[t] = "done" /\ op[t] = "upload"
       /\ began[t] = <<Step("path", TRUE), Step("resolve", TRUE),
                       Step("open", FALSE)>>
       /\ ~result[t].ok /\ result[t].cause = "open"

\* The positions at which an upload ran the step of this name.
Ran(t, name) == {i \in 1 .. Len(began[t]) : began[t][i].step = name}

\* C19: an upload returns Ok only after put_multipart, copy and shutdown
\* succeeded in that order; shutdown runs at most once and only directly
\* after a successful copy; an upload whose copy failed had begun the
\* multipart write, ran nothing after the copy and returns an error.
C19_OkOnlyAfterShutdown ==
    \A t \in Threads :
       /\ (pc[t] = "done" /\ op[t] = "upload" /\ result[t].ok) =>
             began[t] = [i \in 1 .. Len(UploadOrder) |->
                            Step(UploadOrder[i], TRUE)]
       /\ Cardinality(Ran(t, "shutdown")) <= 1
       /\ \A i \in Ran(t, "shutdown") :
             i > 1 /\ began[t][i - 1] = Step("copy", TRUE)
       /\ \A i \in Ran(t, "copy") :
             ~began[t][i].ok =>
                /\ i = Len(began[t])
                /\ i > 1 /\ began[t][i - 1] = Step("put", TRUE)
                /\ pc[t] = "done"
                /\ ~result[t].ok /\ result[t].err = "Internal"

\* One upload returned Ok after all six steps, another returned an error
\* because its copy failed after the multipart write was begun.
C19_Witness ==
    \E t1, t2 \in Threads :
       /\ pc[t1] = "done" /\ op[t1] = "upload" /\ result[t1].ok
       /\ Len(began[t1]) = Len(UploadOrder)
       /\ pc[t2] = "done" /\ op[t2] = "upload" /\ ~result[t2].ok
       /\ result[t2].cause = "copy"
       /\ Ran(t2, "put") # {} /\ Ran(t2, "shutdown") = {}

----------------------------------------------------------------------------
(* Claims about the factory registry (checked under RegSpec) and about
   construction (checked under BuildSpec) *)

\* C13: a get returns the constructor registered under the name it is given,
\* whatever the order in which the factories were collected (get("len")
\* returns the constructor of len once len's factory is collected); a get of
\* a name nobody registered fails with an unknown-operation error for that
\* name; and a get leaves the registry as it was.
C13_GetReturnsRegistered ==
    [][ got' # got =>
          /\ registry' = registry
          /\ submitted' = submitted
          /\ got'.name \in submitted =>
                got'.res = LOk(ConstructorOf(got'.name))
          /\ got'.name \notin submitted =>
                /\ ~got'.res.ok
                /\ got'.res.err = "UnknownOperation"
                /\ got'.res.name = got'.name ]_vars

\* Every module was collected, len's last, and get("len") returned the
\* constructor of len.
C13_Witness ==
    /\ Len(registry) = Cardinality(Operations)
    /\ registry[Len(registry)] = LenFactory
    /\ got # None /\ got.name = "len"
    /\ got.res = LOk(ConstructorOf("len"))

=============================================================================
